---- MODULE Spec2Model ----
(***************************************************************************)
(* A model of the mcts-extract crate: the backtrack queue, the incremental *)
(* extraction state with its snapshot stack, the random rollout estimator  *)
(* and the MCTS search tree.                                               *)
(*                                                                         *)
(* Three specifications share the definitions below:                       *)
(*   SpecQ     a client driving one BacktrackQueue with any interleaving   *)
(*             of push_back, pop_front, snapshot and restore;              *)
(*   SpecES    a client driving one ExtractionState through its public     *)
(*             operations and through random_cost_estimate;                *)
(*   SpecMcts  mcts_extract itself, one step at a time.                    *)
(* Class and node ids are the 0-based usize ids of SimpleEgraph; sequences *)
(* that stand for a Vec are indexed with id + 1.                           *)
(***************************************************************************)
EXTENDS Integers, Sequences, FiniteSets, TLC

VARIABLES
    queue,        \* SpecQ: the BacktrackQueue under test, [data, front]
    q_snaps,      \* SpecQ: the QueueSnapshot values the client holds (with ghost fields)
    q_last,       \* SpecQ: ghost, the last operation and what it returned
    q_expect,     \* SpecQ: ghost, the element the next pop_front is claimed to yield
    egraph,       \* the SimpleEgraph, [nodes, classes]
    config,       \* the MctsConfig, [playouts_per_round, terms_to_sample]
    assignment,   \* the ExtractionState (SearchState.assignment)
    tree,         \* SearchTree.nodes
    search,       \* SearchState's start_node, path and the locals of the running playout
    est,          \* locals of estimate_util and random_cost_estimate
    pc,           \* position of the program
    result,       \* what mcts_extract returned
    panic,        \* the assertion that failed, "" while none has
    ghost         \* ghost: observable states recorded for the claims

vars == <<queue, q_snaps, q_last, q_expect, egraph, config, assignment, tree,
          search, est, pc, result, panic, ghost>>

qvars == <<queue, q_snaps, q_last, q_expect>>
pvars == <<egraph, config, assignment, tree, search, est, pc, result, panic, ghost>>

(***************************************************************************)
(* Bounds of the model.                                                    *)
(***************************************************************************)
MaxQLen == 2
MaxQSnaps == 2
MaxSnapshots == 3
MaxPlayouts == 4
MaxSamples == 4
MaxChain == 3

\* The absent value of an Option of an id or element (ids are not negative).
None == 0 - 1

Min(a, b) == IF a < b THEN a ELSE b
Max(a, b) == IF a > b THEN a ELSE b

RECURSIVE SeqFilterNotIn(_, _)
SeqFilterNotIn(s, S) ==
    IF s = <<>> THEN <<>>
    ELSE IF Head(s) \in S THEN SeqFilterNotIn(Tail(s), S)
         ELSE <<Head(s)>> \o SeqFilterNotIn(Tail(s), S)

Range(s) == {s[i] : i \in 1..Len(s)}

(***************************************************************************)
(* BacktrackQueue (backtrack_queue.rs).                                    *)
(***************************************************************************)
QueueDefault == [data |-> <<>>, front |-> 0]

push_back(q, elem) == [q EXCEPT !.data = Append(q.data, elem)]

\* The element pop_front returns, None when the queue is exhausted.
pop_front_elem(q) ==
    IF q.front < Len(q.data) THEN q.data[q.front + 1] ELSE None

\* A conventional deque: the popped element is deleted from the storage.
pop_front_destructive(q) ==
    IF q.front < Len(q.data)
    THEN [q EXCEPT !.data = SubSeq(q.data, 1, q.front)
                              \o SubSeq(q.data, q.front + 2, Len(q.data))]
    ELSE q

pop_front(q) ==
    IF q.front < Len(q.data) THEN [q EXCEPT !.front = q.front + 1] ELSE q

snapshot(q) == [front |-> q.front, back |-> Len(q.data)]

\* A restore that rewinds the cursor and forgets to truncate the storage.
restore_no_truncate(q, snap) == [data |-> q.data, front |-> snap.front]

restore(q, snap) ==
    [data |-> SubSeq(q.data, 1, Min(snap.back, Len(q.data))), front |-> snap.front]

front(q) == IF q.front < Len(q.data) THEN q.data[q.front + 1] ELSE None

iter(q) == SubSeq(q.data, Min(q.front, Len(q.data)) + 1, Len(q.data))

(***************************************************************************)
(* Assignment (lib.rs): an IndexMap from class ids to node ids, kept as    *)
(* the sequence of its <<class, node>> entries in insertion order.         *)
(***************************************************************************)
Keys(a) == {a[i][1] : i \in 1..Len(a)}

contains_key(a, class) == class \in Keys(a)

get(a, class) ==
    IF class \in Keys(a)
    THEN (CHOOSE e \in Range(a) : e[1] = class)[2]
    ELSE None

\* IndexMap::insert: a new key is appended, an existing key keeps its place.
insert(a, class, node) ==
    IF class \in Keys(a)
    THEN [i \in 1..Len(a) |-> IF a[i][1] = class THEN <<class, node>> ELSE a[i]]
    ELSE Append(a, <<class, node>>)

truncate(a, len) == SubSeq(a, 1, Min(len, Len(a)))

(***************************************************************************)
(* SimpleEgraph (simple_egraph.rs).                                        *)
(***************************************************************************)
children(eg, node) == eg.nodes[node + 1]

members(eg, class) == eg.classes[class + 1]

(***************************************************************************)
(* Deps (extraction_state.rs): data maps a watched class to the pending    *)
(* nodes filed under it; a class with no bucket is not in the domain.      *)
(***************************************************************************)
DepsDefault == << >>

PendingNode(node, class, deps) == [node |-> node, class |-> class, deps |-> deps]

\* self.data.entry(class).or_default().push(pending)
entry_push(data, class, pending) ==
    IF class \in DOMAIN data
    THEN [data EXCEPT ![class] = Append(@, pending)]
    ELSE [c \in DOMAIN data \cup {class} |->
            IF c = class THEN <<pending>> ELSE data[c]]

\* A removal that leaves the bucket in the index.
swap_remove_kept(data, class) == data

swap_remove(data, class) == [c \in DOMAIN data \ {class} |-> data[c]]

RECURSIVE resolve_dep(_, _, _)
RECURSIVE resolve_dep_loop(_, _, _, _, _)
\* The for loop of resolve_dep over the bucket taken out of the index.
resolve_dep_loop(data, assign, bucket, i, assigned) ==
    IF i > Len(bucket)
    THEN [data |-> data, assign |-> assign, assigned |-> assigned]
    ELSE LET pending == bucket[i]
             deps == SeqFilterNotIn(pending.deps, Keys(assign))
         IN  IF deps # <<>>
             THEN resolve_dep_loop(
                      entry_push(data, deps[1], [pending EXCEPT !.deps = deps]),
                      assign, bucket, i + 1, assigned)
             ELSE LET r == resolve_dep(data, insert(assign, pending.class, pending.node),
                                       pending.class)
                  IN  resolve_dep_loop(r.data, r.assign, bucket, i + 1,
                                       assigned + r.assigned + 1)

resolve_dep(data, assign, class) ==
    IF class \notin DOMAIN data
    THEN [data |-> data, assign |-> assign, assigned |-> 0]
    ELSE resolve_dep_loop(swap_remove(data, class), assign, data[class], 1, 0)

\* A commit that does not wait for the children of the node.
track_pending_assignment_eager(data, node, class, assign, node_children) ==
    LET r == resolve_dep(data, insert(assign, class, node), class)
    IN  [r EXCEPT !.assigned = r.assigned + 1]

\* A track_pending_assignment that commits without waking the nodes that
\* wait for the class.
track_pending_assignment_unresolved(data, node, class, assign, node_children) ==
    LET deps == SeqFilterNotIn(node_children, Keys(assign))
    IN  IF deps = <<>>
        THEN [data |-> data, assign |-> insert(assign, class, node), assigned |-> 1]
        ELSE [data |-> entry_push(data, deps[1], PendingNode(node, class, deps)),
              assign |-> assign, assigned |-> 0]

\* A track_pending_assignment that does not count the node it commits itself.
track_pending_assignment_uncounted(data, node, class, assign, node_children) ==
    LET deps == SeqFilterNotIn(node_children, Keys(assign))
    IN  IF deps = <<>>
        THEN resolve_dep(data, insert(assign, class, node), class)
        ELSE [data |-> entry_push(data, deps[1], PendingNode(node, class, deps)),
              assign |-> assign, assigned |-> 0]

track_pending_assignment(data, node, class, assign, node_children) ==
    LET deps == SeqFilterNotIn(node_children, Keys(assign))
    IN  IF deps = <<>>
        THEN LET r == resolve_dep(data, insert(assign, class, node), class)
             IN  [r EXCEPT !.assigned = r.assigned + 1]
        ELSE [data |-> entry_push(data, deps[1], PendingNode(node, class, deps)),
              assign |-> assign, assigned |-> 0]

(***************************************************************************)
(* PendingState and ExtractionState (extraction_state.rs).                 *)
(***************************************************************************)
PendingDefault ==
    [provisional_assign |-> <<>>, n_remaining |-> 0, deps |-> DepsDefault,
     to_visit |-> QueueDefault, to_visit_set |-> {}]

\* A push_to_visit without the duplicate checks.
push_to_visit_always(p, class) ==
    [p EXCEPT !.to_visit_set = @ \cup {class},
              !.to_visit = push_back(@, class)]

\* A push_to_visit that only asks whether the class is queued already.
push_to_visit_unless_queued(p, class) ==
    IF class \notin p.to_visit_set
    THEN [p EXCEPT !.to_visit_set = @ \cup {class},
                   !.to_visit = push_back(@, class)]
    ELSE p

push_to_visit(p, class) ==
    IF ~contains_key(p.provisional_assign, class) /\ class \notin p.to_visit_set
    THEN [p EXCEPT !.to_visit_set = @ \cup {class},
                   !.to_visit = push_back(@, class)]
    ELSE p

RECURSIVE push_all_to_visit(_, _)
push_all_to_visit(p, classes) ==
    IF classes = <<>> THEN p
    ELSE push_all_to_visit(push_to_visit(p, Head(classes)), Tail(classes))

save_snapshot(p) ==
    [assign_len |-> Len(p.provisional_assign),
     n_remaining |-> p.n_remaining,
     to_visit |-> snapshot(p.to_visit)]

\* A rehydration loop that replays the committed entries too.
RECURSIVE rehydrate_no_skip(_, _, _, _, _, _)
rehydrate_no_skip(eg, prov, full_assign, data, i, ok) ==
    IF i > Len(prov)
    THEN [data |-> data, assign |-> full_assign, ok |-> ok]
    ELSE LET r == track_pending_assignment(data, prov[i][2], prov[i][1],
                                           full_assign, children(eg, prov[i][2]))
         IN  rehydrate_no_skip(eg, prov, r.assign, r.data, i + 1, ok /\ r.assigned = 0)

\* The rehydration loop of PendingState::restore from entry i on; ok turns
\* FALSE when a replayed entry commits (the assert_eq fails).
RECURSIVE rehydrate(_, _, _, _, _, _)
rehydrate(eg, prov, full_assign, data, i, ok) ==
    IF i > Len(prov)
    THEN [data |-> data, assign |-> full_assign, ok |-> ok]
    ELSE IF contains_key(full_assign, prov[i][1])
         THEN rehydrate(eg, prov, full_assign, data, i + 1, ok)
         ELSE LET r == track_pending_assignment(data, prov[i][2], prov[i][1],
                                                full_assign, children(eg, prov[i][2]))
              IN  rehydrate(eg, prov, r.assign, r.data, i + 1, ok /\ r.assigned = 0)

\* A restore that forgets self.deps.clear().
pending_restore_no_clear(p, snap, full_assign, eg) ==
    LET prov == truncate(p.provisional_assign, snap.assign_len)
        q == restore(p.to_visit, snap.to_visit)
        r == rehydrate(eg, prov, full_assign, p.deps, 1, TRUE)
    IN  [pending |-> [provisional_assign |-> prov,
                      n_remaining |-> snap.n_remaining,
                      deps |-> r.data,
                      to_visit |-> q,
                      to_visit_set |-> Range(iter(q))],
         assign |-> r.assign,
         ok |-> r.ok]

pending_restore(p, snap, full_assign, eg) ==
    LET prov == truncate(p.provisional_assign, snap.assign_len)
        q == restore(p.to_visit, snap.to_visit)
        r == rehydrate(eg, prov, full_assign, DepsDefault, 1, TRUE)
    IN  [pending |-> [provisional_assign |-> prov,
                      n_remaining |-> snap.n_remaining,
                      deps |-> r.data,
                      to_visit |-> q,
                      to_visit_set |-> Range(iter(q))],
         assign |-> r.assign,
         ok |-> r.ok]

push_snapshot(st) ==
    [st EXCEPT !.snapshots =
        Append(@, [assign_len |-> Len(st.assign), pending |-> save_snapshot(st.pending)])]

ExtractionState_new(root) ==
    push_snapshot([assign |-> <<>>,
                   pending |-> push_to_visit(PendingDefault, root),
                   snapshots |-> <<>>])

\* Whether the assertion in the rehydration of reset holds on st.
reset_assert_ok(st, eg) ==
    \/ st.snapshots = <<>>
    \/ LET snap == st.snapshots[Len(st.snapshots)]
       IN  pending_restore(st.pending, snap.pending,
                           truncate(st.assign, snap.assign_len), eg).ok

\* A reset that forgets assign.truncate.
reset_keep_assign(st, eg) ==
    IF st.snapshots = <<>> THEN st
    ELSE LET snap == st.snapshots[Len(st.snapshots)]
             r == pending_restore(st.pending, snap.pending, st.assign, eg)
         IN  [st EXCEPT !.assign = r.assign, !.pending = r.pending]

\* A reset that consumes the snapshot it rewound to.
reset_popping(st, eg) ==
    IF st.snapshots = <<>> THEN st
    ELSE LET snap == st.snapshots[Len(st.snapshots)]
             r == pending_restore(st.pending, snap.pending,
                                  truncate(st.assign, snap.assign_len), eg)
         IN  [st EXCEPT !.assign = r.assign, !.pending = r.pending,
                        !.snapshots = SubSeq(@, 1, Len(@) - 1)]

reset(st, eg) ==
    IF st.snapshots = <<>> THEN st
    ELSE LET snap == st.snapshots[Len(st.snapshots)]
             r == pending_restore(st.pending, snap.pending,
                                  truncate(st.assign, snap.assign_len), eg)
         IN  [st EXCEPT !.assign = r.assign, !.pending = r.pending]

\* A pop_snapshot that leaves the stack as it is.
pop_snapshot_forgotten(st) == st

pop_snapshot(st) ==
    [st EXCEPT !.snapshots = SubSeq(@, 1, Len(@) - 1)]

\* A completion check that forgets the provisional entries still pending.
is_complete_queue_only(st) == st.pending.to_visit_set = {}

\* Whether complete_assignment returns the committed assignment.
is_complete(st) ==
    st.pending.n_remaining = 0 /\ st.pending.to_visit_set = {}

complete_assignment(st) == IF is_complete(st) THEN st.assign ELSE None

\* A provisional_assign that leaves the dispatched class in to_visit_set.
provisional_assign_keep_set(st, class, node, eg) ==
    LET p1 == [st.pending EXCEPT
                  !.provisional_assign = insert(@, class, node)]
        r == track_pending_assignment(p1.deps, node, class, st.assign, children(eg, node))
        p2 == [p1 EXCEPT !.n_remaining = p1.n_remaining + 1 - r.assigned,
                         !.deps = r.data]
    IN  [st EXCEPT
            !.assign = r.assign,
            !.pending = push_all_to_visit(
                            p2, SeqFilterNotIn(children(eg, node), Keys(r.assign)))]

provisional_assign(st, class, node, eg) ==
    LET p1 == [st.pending EXCEPT
                  !.to_visit_set = @ \ {class},
                  !.provisional_assign = insert(@, class, node)]
        r == track_pending_assignment(p1.deps, node, class, st.assign, children(eg, node))
        p2 == [p1 EXCEPT !.n_remaining = p1.n_remaining + 1 - r.assigned,
                         !.deps = r.data]
    IN  [st EXCEPT
            !.assign = r.assign,
            !.pending = push_all_to_visit(
                            p2, SeqFilterNotIn(children(eg, node), Keys(r.assign)))]

\* start_next_assign: the class the handle stands for, None without one.
handle_class(st) == front(st.pending.to_visit)

\* The assertion of start_next_assign.
start_next_assert_ok(st) ==
    handle_class(st) = None \/ handle_class(st) \in st.pending.to_visit_set

\* AssignHandle::assign
handle_assign(st, node, eg) ==
    provisional_assign(
        [st EXCEPT !.pending.to_visit = pop_front(@)],
        pop_front_elem(st.pending.to_visit), node, eg)

(***************************************************************************)
(* SpecQ: a client of one BacktrackQueue.  It keeps every QueueSnapshot it *)
(* took and may hand any of them to restore, in any order.  Beside each    *)
(* snapshot the ghost fields record what the queue showed when it was      *)
(* taken (seen), whether no later restore cut the storage below its back   *)
(* (valid), whether only push_back and pop_front ran since (plain), and    *)
(* the first element popped since, kept while plain holds (first_pop).     *)
(***************************************************************************)
QElems == {0, 1}

QLast(op, ret, valid, seen, expect, stored, changed) ==
    [op |-> op, ret |-> ret, valid |-> valid, seen |-> seen,
     expect |-> expect, stored |-> stored, changed |-> changed]

QInit ==
    /\ queue = QueueDefault
    /\ q_snaps = {}
    /\ q_last = QLast("new", None, FALSE, <<>>, None, FALSE, FALSE)
    /\ q_expect = [x |-> None, stored |-> FALSE]

QPushBack(elem) ==
    /\ Len(queue.data) < MaxQLen
    /\ queue' = push_back(queue, elem)
    /\ q_last' = QLast("push_back", None, FALSE, <<>>, None, FALSE, FALSE)
    /\ UNCHANGED <<q_snaps, q_expect>>

QPopFront ==
    /\ queue' = pop_front(queue)
    /\ q_last' = QLast("pop_front", pop_front_elem(queue), FALSE, <<>>,
                       q_expect.x, q_expect.stored, FALSE)
    /\ q_snaps' = {IF s.first_pop = None /\ s.plain
                      THEN [s EXCEPT !.first_pop = pop_front_elem(queue)]
                      ELSE s : s \in q_snaps}
    /\ q_expect' = [x |-> None, stored |-> FALSE]

QSnapshot ==
    /\ Cardinality(q_snaps) < MaxQSnaps
    /\ q_snaps' = q_snaps \cup {[snap |-> snapshot(queue), seen |-> iter(queue),
                                  valid |-> TRUE, plain |-> TRUE, first_pop |-> None]}
    /\ q_last' = QLast("snapshot", None, FALSE, <<>>, None, FALSE, FALSE)
    /\ UNCHANGED <<queue, q_expect>>

QRestore(s) ==
    /\ queue' = restore(queue, s.snap)
    /\ q_last' = QLast("restore", None, s.valid, s.seen,
                       None, FALSE, iter(queue) # iter(queue'))
    /\ q_expect' = [x |-> IF s.plain THEN s.first_pop ELSE None,
                    stored |-> s.seen # <<>>]
    /\ q_snaps' = {[t EXCEPT !.plain = FALSE,
                             !.first_pop = None,
                             !.valid = @ /\ s.snap.back >= t.snap.back] : t \in q_snaps}

QNext ==
    \/ \E elem \in QElems : QPushBack(elem) /\ UNCHANGED pvars
    \/ QPopFront /\ UNCHANGED pvars
    \/ QSnapshot /\ UNCHANGED pvars
    \/ \E s \in q_snaps : QRestore(s) /\ UNCHANGED pvars

(***************************************************************************)
(* The e-graphs the program is run on (tests.rs and the scenarios of the   *)
(* specification), and the score function of tests.rs.                     *)
(***************************************************************************)
FourClasses == <<<<0, 1>>, <<2, 3>>, <<4>>, <<5>>>>

\* finds_high_util
ScenarioA ==
    [nodes |-> <<<<2, 1>>, <<2, 2>>, <<2, 3>>, <<3>>, <<3, 3>>, <<>>>>,
     classes |-> FourClasses]

\* fails_unextractable
ScenarioB ==
    [nodes |-> <<<<0, 1>>, <<2, 2>>, <<3, 2>>, <<0, 3>>, <<1, 0>>, <<2, 3, 1>>>>,
     classes |-> FourClasses]

\* A chain of n classes: class i holds node i, whose only child is class i + 1.
Chain(n) ==
    [nodes |-> [i \in 1..n |-> IF i < n THEN <<i>> ELSE <<>>],
     classes |-> [i \in 1..n |-> <<i - 1>>]]

\* Class 1 is empty; node 0 of the root class needs it, node 1 avoids it.
EmptyAvoidable ==
    [nodes |-> <<<<1>>, <<2>>, <<>>>>,
     classes |-> <<<<1, 0>>, <<>>, <<2>>>>]

\* Class 1 is empty and the only node of the root class needs it.
EmptyUnavoidable ==
    [nodes |-> <<<<1>>>>,
     classes |-> <<<<0>>, <<>>>>]

\* Two leaf classes under the root: class 1 commits while class 2 still waits.
Fork ==
    [nodes |-> <<<<1, 2>>, <<>>, <<2>>, <<>>>>,
     classes |-> <<<<0>>, <<1, 2>>, <<3>>>>]

\* One class that can choose a leaf (node 0) or a node that needs the class itself.
SelfLoop ==
    [nodes |-> <<<<>>, <<0>>>>,
     classes |-> <<<<0, 1>>>>]

\* The second child of the root's node (class 2) commits while the first
\* (class 1) still waits for class 3.
LateFirstChild ==
    [nodes |-> <<<<1, 2>>, <<3>>, <<>>, <<>>>>,
     classes |-> <<<<0>>, <<1>>, <<2>>, <<3>>>>]

Egraphs ==
    {ScenarioA, ScenarioB, EmptyAvoidable, EmptyUnavoidable, Fork, SelfLoop,
     LateFirstChild}
      \cup {Chain(n) : n \in 1..MaxChain}

ClassIds(eg) == 0..(Len(eg.classes) - 1)

\* score_fn of tests.rs: 1.0 or 0.0.
score_fn(a) ==
    IF get(a, 0) = 1 /\ get(a, 2) = 4 /\ get(a, 3) = 5 THEN 1 ELSE 0

assignment_utility(eg, a) == score_fn(a)

(***************************************************************************)
(* Ghost records: what a caller can observe of an ExtractionState, and the *)
(* observation made (snaps) and the dependency index built by the forward  *)
(* path (index) at each push_snapshot still on the stack.                  *)
(***************************************************************************)
Observable(st) ==
    [assign |-> st.assign,
     provisional_assign |-> st.pending.provisional_assign,
     n_remaining |-> st.pending.n_remaining,
     to_visit |-> iter(st.pending.to_visit),
     to_visit_set |-> st.pending.to_visit_set]

\* The dependency index of st as the set of its pending (class, node) records,
\* each with the class it is filed under.
WatchIndex(st) ==
    UNION {{[watch |-> w,
             class |-> st.pending.deps[w][k].class,
             node |-> st.pending.deps[w][k].node] : k \in 1..Len(st.pending.deps[w])} :
           w \in DOMAIN st.pending.deps}

GhostInit(st) ==
    [snaps |-> <<Observable(st)>>, index |-> <<WatchIndex(st)>>,
     last |-> "new", undone |-> FALSE]

GhostStep(g, op) == [g EXCEPT !.last = op, !.undone = FALSE]

GhostPush(g, st, op) ==
    [g EXCEPT !.snaps = Append(@, Observable(st)),
              !.index = Append(@, WatchIndex(st)),
              !.last = op, !.undone = FALSE]

GhostPop(g, op) ==
    [g EXCEPT !.snaps = SubSeq(@, 1, Len(@) - 1),
              !.index = SubSeq(@, 1, Len(@) - 1),
              !.last = op]

\* A reset of st; undone records whether it had committed entries, provisional
\* entries and queue contents to take back.
GhostReset(g, st, eg, op) ==
    [g EXCEPT !.last = op,
              !.undone = /\ Len(st.assign) > Len(reset(st, eg).assign)
                         /\ Len(st.pending.provisional_assign)
                              > Len(reset(st, eg).pending.provisional_assign)
                         /\ iter(st.pending.to_visit)
                              # iter(reset(st, eg).pending.to_visit)]

EstIdle ==
    [samples_done |-> 0, util_sum |-> 0, entry |-> <<>>, depth |-> 0,
     steps |-> 0, outcome |-> "", some |-> FALSE, util |-> 0]

(***************************************************************************)
(* random_cost_estimate (extraction_state.rs), one step per action.        *)
(***************************************************************************)
\* Entry: push a snapshot so the state can be handed back as it was got.
RolloutEnter ==
    /\ assignment' = push_snapshot(assignment)
    /\ ghost' = GhostPush(ghost, assignment, "push_snapshot")
    /\ est' = [est EXCEPT !.entry = <<Observable(assignment)>>,
                          !.depth = Len(assignment.snapshots),
                          !.steps = 0, !.outcome = "", !.some = FALSE, !.util = 0]

\* One turn of the while loop: a uniformly drawn member is assigned.
RolloutAssign(node) ==
    /\ pc = "rollout"
    /\ panic = ""
    /\ handle_class(assignment) # None
    /\ node \in Range(members(egraph, handle_class(assignment)))
    /\ assignment' = handle_assign(assignment, node, egraph)
    /\ panic' = IF start_next_assert_ok(assignment) THEN "" ELSE "start_next_assign"
    /\ est' = [est EXCEPT !.steps = @ + 1]
    /\ ghost' = GhostStep(ghost, "assign")
    /\ UNCHANGED <<egraph, config, tree, search, pc, result>>

\* How the closure of random_cost_estimate ends on st.
RolloutOutcome(st) ==
    IF handle_class(st) # None THEN "empty class"
    ELSE IF is_complete(st) THEN "success"
    ELSE "incomplete"

\* The loop ends (no class left, or an empty class): reset, pop_snapshot, return.
\* Under estimate_util (averaging) the caller adds the result, 0 for a failure,
\* to its running sum.
RolloutReturn(ret, averaging) ==
    /\ pc = "rollout"
    /\ panic = ""
    /\ IF handle_class(assignment) = None THEN TRUE
       ELSE members(egraph, handle_class(assignment)) = <<>>
    /\ LET out == RolloutOutcome(assignment)
           u == IF out = "success" THEN assignment_utility(egraph, assignment.assign) ELSE 0
       IN  est' = [est EXCEPT !.outcome = out, !.some = (out = "success"), !.util = u,
                              !.util_sum = IF averaging THEN @ + u ELSE @,
                              !.samples_done = IF averaging THEN @ + 1 ELSE @]
    /\ assignment' = pop_snapshot(reset(assignment, egraph))
    /\ panic' = IF ~start_next_assert_ok(assignment) THEN "start_next_assign"
                ELSE IF ~reset_assert_ok(assignment, egraph) THEN "restore"
                ELSE ""
    /\ ghost' = GhostPop(GhostReset(ghost, assignment, egraph, "reset"), "estimate_return")
    /\ pc' = ret
    /\ UNCHANGED <<egraph, config, tree, search, result>>

(***************************************************************************)
(* SpecES: a client of one ExtractionState calling its public operations   *)
(* and random_cost_estimate in any order, on any of the e-graphs and from  *)
(* any root class.                                                         *)
(***************************************************************************)
TreeIdle == <<>>
SearchIdle == [start_node |-> 0, path |-> <<>>, cur |-> 0, has_leaf |-> FALSE, util |-> 0,
               playouts_done |-> 0]
ResultIdle == [some |-> FALSE, assign |-> <<>>]
ConfigIdle == [playouts_per_round |-> 0, terms_to_sample |-> 0]

ESInit ==
    /\ QInit
    /\ egraph \in Egraphs
    /\ \E root \in ClassIds(egraph) :
          /\ assignment = ExtractionState_new(root)
          /\ ghost = GhostInit(ExtractionState_new(root))
    /\ config = ConfigIdle
    /\ tree = TreeIdle
    /\ search = SearchIdle
    /\ est = EstIdle
    /\ result = ResultIdle
    /\ pc = "idle"
    /\ panic = ""

ESAssign(node) ==
    /\ pc = "idle"
    /\ panic = ""
    /\ handle_class(assignment) # None
    /\ node \in Range(members(egraph, handle_class(assignment)))
    /\ assignment' = handle_assign(assignment, node, egraph)
    /\ panic' = IF start_next_assert_ok(assignment) THEN "" ELSE "start_next_assign"
    /\ ghost' = GhostStep(ghost, "assign")
    /\ est' = EstIdle
    /\ UNCHANGED <<egraph, config, tree, search, pc, result>>

ESPushSnapshot ==
    /\ pc = "idle"
    /\ panic = ""
    /\ Len(assignment.snapshots) < MaxSnapshots
    /\ assignment' = push_snapshot(assignment)
    /\ ghost' = GhostPush(ghost, assignment, "push_snapshot")
    /\ est' = EstIdle
    /\ UNCHANGED <<egraph, config, tree, search, pc, result, panic>>

ESPopSnapshot ==
    /\ pc = "idle"
    /\ panic = ""
    /\ assignment' = pop_snapshot(assignment)
    /\ ghost' = GhostPop(GhostStep(ghost, "pop_snapshot"), "pop_snapshot")
    /\ est' = EstIdle
    /\ UNCHANGED <<egraph, config, tree, search, pc, result, panic>>

ESReset ==
    /\ pc = "idle"
    /\ panic = ""
    /\ assignment' = reset(assignment, egraph)
    /\ panic' = IF reset_assert_ok(assignment, egraph) THEN "" ELSE "restore"
    /\ ghost' = GhostReset(ghost, assignment, egraph, "reset")
    /\ est' = EstIdle
    /\ UNCHANGED <<egraph, config, tree, search, pc, result>>

ESEstimate ==
    /\ pc = "idle"
    /\ panic = ""
    /\ RolloutEnter
    /\ pc' = "rollout"
    /\ UNCHANGED <<egraph, config, tree, search, result, panic>>

ESNext ==
    \/ \E node \in 0..5 : ESAssign(node) /\ UNCHANGED qvars
    \/ ESPushSnapshot /\ UNCHANGED qvars
    \/ ESPopSnapshot /\ UNCHANGED qvars
    \/ ESReset /\ UNCHANGED qvars
    \/ ESEstimate /\ UNCHANGED qvars
    \/ \E node \in 0..5 : RolloutAssign(node) /\ UNCHANGED qvars
    \/ RolloutReturn("idle", FALSE) /\ UNCHANGED qvars

PIdleInit ==
    /\ egraph = ScenarioA
    /\ config = ConfigIdle
    /\ assignment = ExtractionState_new(0)
    /\ ghost = GhostInit(ExtractionState_new(0))
    /\ tree = TreeIdle
    /\ search = SearchIdle
    /\ est = EstIdle
    /\ result = ResultIdle
    /\ pc = "idle"
    /\ panic = ""

QSpecInit ==
    /\ QInit
    /\ PIdleInit

SpecQ == QSpecInit /\ [][QNext]_vars

(***************************************************************************)
(* Properties of the BacktrackQueue, checked under SpecQ.                  *)
(***************************************************************************)
\* C9 as stated: after restore(s), whatever ran since s was taken, the elements
\* from the front onward are those seen right after the snapshot call that
\* produced s.
C9_RoundTripAnyInterleaving ==
    q_last.op = "restore" => iter(queue) = q_last.seen

\* C9 amended: the round trip holds when no snapshot with a smaller back than
\* s's was restored between taking s and restore(s) (such a restore truncates
\* the storage s still refers to).
C9_RoundTripNoShorterRestore ==
    (q_last.op = "restore" /\ q_last.valid) => iter(queue) = q_last.seen

\* A restore that took back a pop made since the snapshot, on a queue whose
\* front had already moved when the snapshot was taken.
C9_Witness ==
    /\ q_last.op = "restore"
    /\ q_last.valid
    /\ q_last.changed
    /\ q_expect.x # None
    /\ Len(q_last.seen) >= 1
    /\ queue.front > 0
    /\ iter(queue) = q_last.seen

\* C10 as stated: when only push_back and pop_front ran between taking s and
\* restore(s) and the first of those pops yielded x, the first pop_front after
\* restore(s) yields x.
C10_PopAfterRestoreSame ==
    (q_last.op = "pop_front" /\ q_last.expect # None) => q_last.ret = q_last.expect

\* C10 amended: the same, for an x that was already stored in the live queue
\* when s was taken (the queue was not exhausted at the snapshot); an x pushed
\* after the snapshot is truncated away by restore.
C10_PopAfterRestoreSameStored ==
    (q_last.op = "pop_front" /\ q_last.expect # None /\ q_last.stored)
        => q_last.ret = q_last.expect

\* A pop after a restore that yields again the element popped before it.
C10_Witness ==
    /\ q_last.op = "pop_front"
    /\ q_last.expect # None
    /\ q_last.stored
    /\ q_last.ret = q_last.expect
    /\ Len(queue.data) >= 2

SpecES == ESInit /\ [][ESNext]_vars

(***************************************************************************)
(* Properties of the ExtractionState, checked under SpecES.                *)
(***************************************************************************)
\* C1: right after reset, the observable state (assign, provisional_assign,
\* n_remaining, the live queue, to_visit_set) is the one observed at the
\* push_snapshot that pushed the snapshot now on top of the stack.
C1_ResetRestoresSnapshot ==
    (ghost.last = "reset" /\ assignment.snapshots # <<>>)
        => Observable(assignment) = ghost.snaps[Len(ghost.snaps)]

\* A reset under a nested snapshot that took back committed entries,
\* provisional entries and queue contents.
C1_Witness ==
    /\ ghost.last = "reset"
    /\ ghost.undone
    /\ Len(assignment.snapshots) >= 2
    /\ Len(assignment.assign) >= 1
    /\ Observable(assignment) = ghost.snaps[Len(ghost.snaps)]

\* C2: when random_cost_estimate returns, with whatever outcome, the observable
\* state and the depth of the snapshot stack are those of its entry.
C2_EstimateNoNetChange ==
    ghost.last = "estimate_return"
        => /\ Observable(assignment) = est.entry[1]
           /\ Len(assignment.snapshots) = est.depth

\* A rollout that failed on an empty class after assigning at least one class.
C2_Witness ==
    /\ ghost.last = "estimate_return"
    /\ est.outcome = "empty class"
    /\ est.steps >= 1
    /\ Observable(assignment) = est.entry[1]
    /\ Len(assignment.snapshots) = est.depth

\* The other two outcomes of C2: a rollout that succeeded, one that ended
\* incomplete.
C2_ReachedSuccess ==
    ~(ghost.last = "estimate_return" /\ est.outcome = "success" /\ est.steps >= 2)

C2_ReachedIncomplete ==
    ~(ghost.last = "estimate_return" /\ est.outcome = "incomplete" /\ est.steps >= 2)

\* C11: reset is idempotent.  Right after a reset, a second reset leaves the
\* whole ExtractionState (assign, provisional_assign, n_remaining, the to_visit
\* queue, to_visit_set, the dependency index and the snapshot stack) as the
\* first reset left it, and its assertion holds.
C11_ResetIdempotent ==
    ghost.last = "reset"
        => /\ reset(assignment, egraph) = assignment
           /\ reset_assert_ok(assignment, egraph)

\* A reset under a nested snapshot that took entries back and rebuilt a
\* dependency index that is not empty; a second reset changes nothing.
C11_Witness ==
    /\ ghost.last = "reset"
    /\ ghost.undone
    /\ Len(assignment.snapshots) >= 2
    /\ DOMAIN assignment.pending.deps # {}
    /\ reset(assignment, egraph) = assignment

(***************************************************************************)
(* Invariants of the ExtractionState between its public operations,        *)
(* checked under SpecES (the steps of a rollout are public operations too).*)
(***************************************************************************)
LiveQueue == iter(assignment.pending.to_visit)

\* C14: to_visit_set is the set of the elements of to_visit from the front
\* onward, and the assertion of start_next_assign has not failed and would
\* not fail now.
C14_ToVisitSetIsLiveQueue ==
    /\ assignment.pending.to_visit_set = Range(LiveQueue)
    /\ start_next_assert_ok(assignment)
    /\ panic # "start_next_assign"

\* After a reset that took entries back: the front has moved past a popped
\* class, two classes wait in the queue, and the rebuilt set holds them.
C14_Witness ==
    /\ ghost.last = "reset"
    /\ ghost.undone
    /\ assignment.pending.to_visit.front >= 1
    /\ Cardinality(assignment.pending.to_visit_set) >= 2
    /\ assignment.pending.to_visit_set = Range(LiveQueue)

ProvisionalKeys == Keys(assignment.pending.provisional_assign)

\* C15: the live part of to_visit holds no class twice, and no class in it or
\* in to_visit_set is a key of provisional_assign.
C15_QueueHoldsUndispatchedOnce ==
    /\ \A i, j \in 1..Len(LiveQueue) : LiveQueue[i] = LiveQueue[j] => i = j
    /\ (Range(LiveQueue) \cup assignment.pending.to_visit_set) \cap ProvisionalKeys = {}

\* Two classes wait in the queue while a dispatched node has a child that was
\* refused because it already has a provisional entry.
C15_Witness ==
    /\ Len(LiveQueue) >= 2
    /\ \E i \in 1..Len(assignment.pending.provisional_assign) :
          Range(children(egraph, assignment.pending.provisional_assign[i][2]))
              \cap ProvisionalKeys # {}
    /\ Range(LiveQueue) \cap ProvisionalKeys = {}

\* C16: every entry of assign is an entry of provisional_assign (same class,
\* same node), and n_remaining is the number of provisional keys that are not
\* keys of assign, |provisional_assign| - |assign|; it never went below zero.
C16_RemainingCountsUncommitted ==
    /\ Range(assignment.assign) \subseteq Range(assignment.pending.provisional_assign)
    /\ assignment.pending.n_remaining
          = Cardinality(ProvisionalKeys \ Keys(assignment.assign))
    /\ assignment.pending.n_remaining
          = Len(assignment.pending.provisional_assign) - Len(assignment.assign)
    /\ assignment.pending.n_remaining >= 0

\* Three classes were dispatched; some are committed and some still wait.
C16_Witness ==
    /\ Len(assignment.pending.provisional_assign) >= 3
    /\ Len(assignment.assign) >= 1
    /\ assignment.pending.n_remaining >= 1
    /\ assignment.pending.n_remaining
          = Len(assignment.pending.provisional_assign) - Len(assignment.assign)

\* The pending records of the dependency index of st, each with the class it
\* is filed under.
PendingRecords(st) ==
    UNION {{[watch |-> w,
             class |-> st.pending.deps[w][k].class,
             node |-> st.pending.deps[w][k].node,
             deps |-> st.pending.deps[w][k].deps] : k \in 1..Len(st.pending.deps[w])} :
           w \in DOMAIN st.pending.deps}

\* C17 as stated: no class listed in the deps of a pending record has an entry
\* in the committed assign.
C17_DepsAllUncommitted ==
    \A r \in PendingRecords(assignment) :
        Range(r.deps) \cap Keys(assignment.assign) = {}

\* C17 amended: the first class listed in the deps of a pending record has no
\* entry in the committed assign (deps is pruned only when that class
\* commits, so a later class of deps may have been committed meanwhile).
C17_FirstDepUncommitted ==
    \A r \in PendingRecords(assignment) :
        /\ r.deps # <<>>
        /\ r.deps[1] \notin Keys(assignment.assign)

\* A record whose first dep still waits while a later one is committed.
C17_Witness ==
    \E r \in PendingRecords(assignment) :
        /\ r.deps # <<>>
        /\ r.deps[1] \notin Keys(assignment.assign)
        /\ Range(r.deps) \cap Keys(assignment.assign) # {}

\* C18: every pending record is filed under a class that is not a key of
\* assign, and every provisional entry that is not committed has exactly one
\* pending record, in exactly one bucket (and no committed entry has any).
C18_OneRecordUnderUncommittedClass ==
    /\ \A w \in DOMAIN assignment.pending.deps :
          /\ w \notin Keys(assignment.assign)
          /\ assignment.pending.deps[w] # <<>>
    /\ \A i \in 1..Len(assignment.pending.provisional_assign) :
          LET e == assignment.pending.provisional_assign[i]
              filed == {<<r.watch, r.node>> : r \in {x \in PendingRecords(assignment) :
                                                         x.class = e[1]}}
              count == Cardinality(
                         UNION {{<<w, k>> : k \in {j \in 1..Len(assignment.pending.deps[w]) :
                                               assignment.pending.deps[w][j].class = e[1]}} :
                                w \in DOMAIN assignment.pending.deps})
          IN  IF e[1] \in Keys(assignment.assign)
              THEN count = 0
              ELSE count = 1 /\ \A f \in filed : f[2] = e[2]

\* Two records wait in the index while another class is committed.
C18_Witness ==
    /\ Cardinality(PendingRecords(assignment)) >= 2
    /\ Len(assignment.assign) >= 1
    /\ \A w \in DOMAIN assignment.pending.deps : w \notin Keys(assignment.assign)

\* The first child of node, in children order, that is not a key of a.
FirstUncommittedChild(eg, a, node) ==
    LET deps == SeqFilterNotIn(children(eg, node), Keys(a))
    IN  IF deps = <<>> THEN None ELSE deps[1]

\* C19: the dependency index rebuilt by reset holds the same pending
\* (class, node) records, each filed under the same class, as the index the
\* forward path had built when the snapshot on top of the stack was pushed;
\* that class is the first child of the node that is not a key of assign.
C19_RehydrationIsForwardIndex ==
    (ghost.last = "reset" /\ assignment.snapshots # <<>>)
        => /\ WatchIndex(assignment) = ghost.index[Len(ghost.index)]
           /\ \A r \in WatchIndex(assignment) :
                 r.watch = FirstUncommittedChild(egraph, assignment.assign, r.node)

\* A reset that took entries back and rebuilt a record filed under a class
\* other than the first child of its node, as the forward path had refiled it.
C19_Witness ==
    /\ ghost.last = "reset"
    /\ ghost.undone
    /\ assignment.snapshots # <<>>
    /\ \E r \in WatchIndex(assignment) : r.watch # children(egraph, r.node)[1]
    /\ WatchIndex(assignment) = ghost.index[Len(ghost.index)]

\* C20: the assertion in the rehydration of reset has never failed and would
\* not fail now: once assign and provisional_assign are cut to the lengths of
\* the top snapshot, every provisional entry left whose class is not a key of
\* assign has a child that is not a key of assign either.
C20_RehydrationAssertHolds ==
    /\ panic # "restore"
    /\ reset_assert_ok(assignment, egraph)
    /\ assignment.snapshots # <<>> =>
          LET snap == assignment.snapshots[Len(assignment.snapshots)]
              a == truncate(assignment.assign, snap.assign_len)
              prov == truncate(assignment.pending.provisional_assign,
                               snap.pending.assign_len)
          IN  \A i \in 1..Len(prov) :
                  prov[i][1] \notin Keys(a)
                      => FirstUncommittedChild(egraph, a, prov[i][2]) # None

\* A reset that took entries back, skipped a committed entry and replayed a
\* pending one.
C20_Witness ==
    /\ ghost.last = "reset"
    /\ ghost.undone
    /\ panic = ""
    /\ Len(assignment.assign) >= 1
    /\ WatchIndex(assignment) # {}

(***************************************************************************)
(* The search tree (search_tree.rs).  A Utility is kept as an integer      *)
(* numerator over terms_to_sample: every utility the program computes is   *)
(* a score of 0.0 or 1.0, a mean of terms_to_sample such scores, or a sum  *)
(* of those.  UCT scores are fixed-point numbers in units of 1/Scale.      *)
(***************************************************************************)
Scale == 100 * 100

\* Scores closer than this are not told apart by the fixed-point arithmetic.
Eps == 2 + 3

\* Utility::new(2.0f32.sqrt()), in units of 1/Scale.
ExplorationTerm == 14142

\* floor(ln(n) * 10^6) for n = 1..64.
LnMicro ==
    <<
      0, 693147, 1098612, 1386294, 1609437, 1791759, 1945910, 2079441,
      2197224, 2302585, 2397895, 2484906, 2564949, 2639057, 2708050, 2772588,
      2833213, 2890371, 2944438, 2995732, 3044522, 3091042, 3135494, 3178053,
      3218875, 3258096, 3295836, 3332204, 3367295, 3401197, 3433987, 3465735,
      3496507, 3526360, 3555348, 3583518, 3610917, 3637586, 3663561, 3688879,
      3713572, 3737669, 3761200, 3784189, 3806662, 3828641, 3850147, 3871201,
      3891820, 3912023, 3931825, 3951243, 3970291, 3988984, 4007333, 4025351,
      4043051, 4060443, 4077537, 4094344, 4110873, 4127134, 4143134, 4158883
    >>

RECURSIVE ISqrtBetween(_, _, _)
ISqrtBetween(lo, hi, n) ==
    IF lo >= hi THEN lo
    ELSE LET mid == (lo + hi + 1) \div 2
         IN  IF mid * mid <= n THEN ISqrtBetween(mid, hi, n)
             ELSE ISqrtBetween(lo, mid - 1, n)

\* The integer square root of n < 2^31.
ISqrt(n) == ISqrtBetween(0, 46340, n)

\* A tree node that counts as visited from the moment it is created.
TreeNodeVisited(class) ==
    [class |-> class, n_visits |-> 1, total_utility |-> 0, state |-> << >>]

\* A TreeNode as SearchTree::new and fresh_node build it.
TreeNode(class) ==
    [class |-> class, n_visits |-> 0, total_utility |-> 0, state |-> << >>]

SearchTree_new(root_class) == <<TreeNode(root_class)>>

\* child_avg_utility + c * sqrt(ln(total_rounds) / max(child_rounds, 1))
uct_score(child_rounds, child_avg_utility, total_rounds, c) ==
    LET n_visits == Max(child_rounds, 1)
    IN  child_avg_utility
          + (c * ISqrt((LnMicro[total_rounds] * 100) \div n_visits)) \div Scale

\* total_utility / cast_util(max(n_visits, 1)), in units of 1/Scale.
avg_utility(total_utility, n_visits, cfg) ==
    (total_utility * Scale) \div (cfg.terms_to_sample * Max(n_visits, 1))

\* What run_playout maps member i of the class to: its score, its child tree
\* node (None without one) and the e-node.
Candidate(t, cur_node, ms, i, cfg) ==
    IF ms[i] \in DOMAIN cur_node.state
    THEN LET child_node == t[cur_node.state[ms[i]] + 1]
         IN  [score |-> uct_score(child_node.n_visits,
                                  avg_utility(child_node.total_utility,
                                              child_node.n_visits, cfg),
                                  cur_node.n_visits, ExplorationTerm),
              child |-> cur_node.state[ms[i]],
              node |-> ms[i],
              n |-> Max(child_node.n_visits, 1),
              total |-> child_node.total_utility]
    ELSE [score |-> uct_score(0, 0, cur_node.n_visits, ExplorationTerm),
          child |-> None,
          node |-> ms[i],
          n |-> 1,
          total |-> 0]

\* Sums of means are exact in f32 when terms_to_sample is a power of two.
ExactArith(cfg) == cfg.terms_to_sample \in {1, 2, 4, 8}

\* Two candidates whose scores are the same f32 value: same visits and the
\* same total utility.
SameScore(a, b, cfg) ==
    a.n = b.n /\ a.total = b.total /\ (ExactArith(cfg) \/ a.total = 0)

\* A max_by_key that returns the first of the maximal elements.
MaxByScoreFirst(cands, cfg) ==
    {i \in 1..Len(cands) :
        /\ \A j \in 1..(i - 1) : cands[i].score > cands[j].score
        /\ \A j \in (i + 1)..Len(cands) : cands[i].score >= cands[j].score}

\* Iterator::max_by_key returns the last of the maximal elements: member i
\* wins when it is not below any earlier member and above every later one.
\* Scores within Eps of each other that are not the same value may compare
\* either way.
MaxByScore(cands, cfg) ==
    {i \in 1..Len(cands) :
        /\ \A j \in 1..(i - 1) :
              SameScore(cands[i], cands[j], cfg)
                \/ cands[i].score >= cands[j].score - Eps
        /\ \A j \in (i + 1)..Len(cands) :
              ~SameScore(cands[i], cands[j], cfg)
                /\ cands[i].score > cands[j].score - Eps}

\* A fresh_node that records the class of the root instead of the class given.
fresh_node_root_class(t, class) == Append(t, TreeNode(t[1].class))

fresh_node(t, class) == Append(t, TreeNode(class))

\* self.tree.nodes[id].state.insert(enode, new)
state_insert(t, id, enode, new) ==
    [t EXCEPT ![id + 1].state =
        [e \in DOMAIN @ \cup {enode} |-> IF e = enode THEN new ELSE @[e]]]

\* A backpropagation that leaves out the node the playout started from.
backpropagate_below_start(t, path, util) ==
    [k \in 1..Len(t) |->
        IF (k - 1) \in Range(Tail(path))
        THEN [t[k] EXCEPT !.n_visits = @ + 1, !.total_utility = @ + util]
        ELSE t[k]]

\* The backpropagation loop of run_playout.
backpropagate(t, path, util) ==
    [k \in 1..Len(t) |->
        IF (k - 1) \in Range(path)
        THEN [t[k] EXCEPT !.n_visits = @ + 1, !.total_utility = @ + util]
        ELSE t[k]]

\* The children of cur_node that pick_node's max_by_key may return: those
\* with the largest n_visits (the map's iteration order decides among them).
MaxByVisits(t, cur_node) ==
    {e \in DOMAIN cur_node.state :
        \A f \in DOMAIN cur_node.state :
            t[cur_node.state[e] + 1].n_visits >= t[cur_node.state[f] + 1].n_visits}

(***************************************************************************)
(* SpecMcts: mcts_extract (lib.rs) on one of the e-graphs, from any root   *)
(* class, under one of the configurations; SearchState::assign,            *)
(* run_playout and pick_node (search_tree.rs) one step per action.         *)
(***************************************************************************)
Configs ==
    [playouts_per_round : 0..MaxPlayouts, terms_to_sample : 1..MaxSamples]

\* SearchTree::new and start_round.
McInit ==
    /\ QInit
    /\ egraph \in Egraphs
    /\ config \in Configs
    /\ \E root \in ClassIds(egraph) :
          /\ assignment = ExtractionState_new(root)
          /\ ghost = GhostInit(ExtractionState_new(root))
          /\ tree = SearchTree_new(root)
    /\ search = SearchIdle
    /\ est = EstIdle
    /\ result = ResultIdle
    /\ pc = "round"
    /\ panic = ""

\* assign: the next of the playouts_per_round playouts starts (run_playout).
McStartPlayout ==
    /\ pc = "round"
    /\ panic = ""
    /\ search.playouts_done < config.playouts_per_round
    /\ search' = [search EXCEPT !.cur = search.start_node,
                                !.path = <<search.start_node>>,
                                !.has_leaf = FALSE,
                                !.util = 0]
    /\ pc' = "descend"
    /\ ghost' = GhostStep(ghost, "run_playout")
    /\ UNCHANGED <<egraph, config, assignment, tree, est, result, panic>>

\* The descent loop ends: no class is left to assign.
McLoopExit ==
    /\ pc = "descend"
    /\ panic = ""
    /\ handle_class(assignment) = None
    /\ pc' = "estimate"
    /\ UNCHANGED <<egraph, config, assignment, tree, search, est, result, panic, ghost>>

\* An unvisited frontier node: its utility estimate is the leaf value.
McFrontier ==
    /\ pc = "descend"
    /\ panic = ""
    /\ handle_class(assignment) # None
    /\ tree[search.cur + 1].n_visits = 0
    /\ search' = [search EXCEPT !.has_leaf = TRUE]
    /\ pc' = "estimate"
    /\ panic' = IF start_next_assert_ok(assignment) THEN "" ELSE "start_next_assign"
    /\ UNCHANGED <<egraph, config, assignment, tree, est, result, ghost>>

\* A visited node whose class has no members: the leaf value is 0.
McEmptyClass ==
    /\ pc = "descend"
    /\ panic = ""
    /\ handle_class(assignment) # None
    /\ tree[search.cur + 1].n_visits # 0
    /\ members(egraph, handle_class(assignment)) = <<>>
    /\ search' = [search EXCEPT !.has_leaf = TRUE, !.util = 0]
    /\ pc' = "backprop"
    /\ panic' = IF start_next_assert_ok(assignment) THEN "" ELSE "start_next_assign"
    /\ UNCHANGED <<egraph, config, assignment, tree, est, result, ghost>>

\* A visited node: the member with the best UCT score is assigned, its tree
\* node created when it has none.
McSelect(i) ==
    /\ pc = "descend"
    /\ panic = ""
    /\ handle_class(assignment) # None
    /\ tree[search.cur + 1].n_visits # 0
    /\ LET class == handle_class(assignment)
           ms == members(egraph, class)
           cur_node == tree[search.cur + 1]
           cands == [k \in 1..Len(ms) |-> Candidate(tree, cur_node, ms, k, config)]
           new == Len(tree)
           child == IF cands[i].child # None THEN cands[i].child ELSE new
       IN  /\ i \in MaxByScore(cands, config)
           /\ tree' = IF cands[i].child # None THEN tree
                      ELSE state_insert(fresh_node(tree, class), search.cur,
                                        cands[i].node, new)
           /\ search' = [search EXCEPT !.path = Append(@, child), !.cur = child]
           /\ assignment' = handle_assign(assignment, cands[i].node, egraph)
    /\ panic' = IF start_next_assert_ok(assignment) THEN "" ELSE "start_next_assign"
    /\ ghost' = GhostStep(ghost, "assign")
    /\ UNCHANGED <<egraph, config, est, pc, result>>

\* estimate_util on a complete state: its exact utility.
McEstimateExact ==
    /\ pc = "estimate"
    /\ panic = ""
    /\ is_complete(assignment)
    /\ search' = [search EXCEPT
                    !.util = assignment_utility(egraph, assignment.assign)
                               * config.terms_to_sample]
    /\ pc' = "backprop"
    /\ UNCHANGED <<egraph, config, assignment, tree, est, result, panic, ghost>>

\* estimate_util on an incomplete state: the sampling loop starts.
McEstimateBegin ==
    /\ pc = "estimate"
    /\ panic = ""
    /\ ~is_complete(assignment)
    /\ est' = EstIdle
    /\ pc' = "sample"
    /\ UNCHANGED <<egraph, config, assignment, tree, search, result, panic, ghost>>

\* One more of the terms_to_sample rollouts: random_cost_estimate is entered.
McSample ==
    /\ pc = "sample"
    /\ panic = ""
    /\ est.samples_done < config.terms_to_sample
    /\ RolloutEnter
    /\ pc' = "rollout"
    /\ UNCHANGED <<egraph, config, tree, search, result, panic>>

\* The sampling loop is over: util / n_samples.
McSampleDone ==
    /\ pc = "sample"
    /\ panic = ""
    /\ est.samples_done = config.terms_to_sample
    /\ search' = [search EXCEPT !.util = est.util_sum]
    /\ est' = EstIdle
    /\ pc' = "backprop"
    /\ UNCHANGED <<egraph, config, assignment, tree, result, panic, ghost>>

\* An end of run_playout that backpropagates and forgets the reset.
McBackpropNoReset ==
    /\ pc = "backprop"
    /\ panic = ""
    /\ tree' = backpropagate(tree, search.path, search.util)
    /\ search' = [search EXCEPT !.path = <<>>, !.playouts_done = @ + 1,
                                !.cur = 0, !.has_leaf = FALSE, !.util = 0]
    /\ ghost' = GhostStep(ghost, "reset")
    /\ pc' = "round"
    /\ UNCHANGED <<egraph, config, assignment, est, result, panic>>

\* The end of run_playout: backpropagation along the path, then reset.
McBackprop ==
    /\ pc = "backprop"
    /\ panic = ""
    /\ tree' = backpropagate(tree, search.path, search.util)
    /\ search' = [search EXCEPT !.path = <<>>, !.playouts_done = @ + 1,
                                !.cur = 0, !.has_leaf = FALSE, !.util = 0]
    /\ assignment' = reset(assignment, egraph)
    /\ panic' = IF reset_assert_ok(assignment, egraph) THEN "" ELSE "restore"
    /\ ghost' = GhostReset(ghost, assignment, egraph, "reset")
    /\ pc' = "round"
    /\ UNCHANGED <<egraph, config, est, result>>

\* An assign that returns the committed assignment without asking whether it
\* is complete.
McFinishUnchecked ==
    /\ pc = "round"
    /\ panic = ""
    /\ search.playouts_done = config.playouts_per_round
    /\ handle_class(assignment) = None
    /\ result' = [some |-> TRUE, assign |-> assignment.assign]
    /\ pc' = "done"
    /\ ghost' = GhostStep(ghost, "return")
    /\ UNCHANGED <<egraph, config, assignment, tree, search, est, panic>>

\* pick_node with no class left: assign leaves its loop and returns the
\* complete assignment, or none when the state is not complete.
McFinish ==
    /\ pc = "round"
    /\ panic = ""
    /\ search.playouts_done = config.playouts_per_round
    /\ handle_class(assignment) = None
    /\ result' = [some |-> is_complete(assignment),
                  assign |-> IF is_complete(assignment) THEN assignment.assign ELSE <<>>]
    /\ pc' = "done"
    /\ ghost' = GhostStep(ghost, "return")
    /\ UNCHANGED <<egraph, config, assignment, tree, search, est, panic>>

\* pick_node at a tree node without children: extraction fails.
McPickFail ==
    /\ pc = "round"
    /\ panic = ""
    /\ search.playouts_done = config.playouts_per_round
    /\ handle_class(assignment) # None
    /\ DOMAIN tree[search.start_node + 1].state = {}
    /\ result' = [some |-> FALSE, assign |-> <<>>]
    /\ pc' = "done"
    /\ panic' = IF start_next_assert_ok(assignment) THEN "" ELSE "start_next_assign"
    /\ ghost' = GhostStep(ghost, "return")
    /\ UNCHANGED <<egraph, config, assignment, tree, search, est>>

\* pick_node: the most visited child is committed and a snapshot pushed.
McPickNode(next_enode) ==
    /\ pc = "round"
    /\ panic = ""
    /\ search.playouts_done = config.playouts_per_round
    /\ handle_class(assignment) # None
    /\ next_enode \in MaxByVisits(tree, tree[search.start_node + 1])
    /\ LET next_tree_node == tree[search.start_node + 1].state[next_enode]
       IN  /\ panic' = IF ~start_next_assert_ok(assignment) THEN "start_next_assign"
                       ELSE IF tree[next_tree_node + 1].class # handle_class(assignment)
                            THEN "pick_node"
                            ELSE ""
           /\ assignment' = push_snapshot(handle_assign(assignment, next_enode, egraph))
           /\ ghost' = GhostPush(ghost, handle_assign(assignment, next_enode, egraph),
                                 "push_snapshot")
           /\ search' = [search EXCEPT !.start_node = next_tree_node,
                                       !.playouts_done = 0]
    /\ UNCHANGED <<egraph, config, tree, est, pc, result>>

McNext ==
    \/ McStartPlayout /\ UNCHANGED qvars
    \/ McLoopExit /\ UNCHANGED qvars
    \/ McFrontier /\ UNCHANGED qvars
    \/ McEmptyClass /\ UNCHANGED qvars
    \/ \E i \in 1..2 : McSelect(i) /\ UNCHANGED qvars
    \/ McEstimateExact /\ UNCHANGED qvars
    \/ McEstimateBegin /\ UNCHANGED qvars
    \/ McSample /\ UNCHANGED qvars
    \/ McSampleDone /\ UNCHANGED qvars
    \/ \E node \in 0..5 : RolloutAssign(node) /\ UNCHANGED qvars
    \/ RolloutReturn("sample", TRUE) /\ UNCHANGED qvars
    \/ McBackprop /\ UNCHANGED qvars
    \/ McFinish /\ UNCHANGED qvars
    \/ McPickFail /\ UNCHANGED qvars
    \/ \E next_enode \in 0..5 : McPickNode(next_enode) /\ UNCHANGED qvars

SpecMcts == McInit /\ [][McNext]_vars

(***************************************************************************)
(* Properties of mcts_extract, checked under SpecMcts.                     *)
(***************************************************************************)
Root == tree[1].class

Returned == pc = "done" /\ result.some

\* The classes that have a finite extraction: the least set holding every
\* class with a member all of whose children are in the set.
RECURSIVE ExtractableFrom(_, _)
ExtractableFrom(eg, S) ==
    LET T == S \cup {c \in ClassIds(eg) :
                        \E n \in Range(members(eg, c)) : Range(children(eg, n)) \subseteq S}
    IN  IF T = S THEN S ELSE ExtractableFrom(eg, T)

Extractable(eg) == ExtractableFrom(eg, {})

\* The classes reachable from S through the children of any member.
RECURSIVE ReachableFrom(_, _)
ReachableFrom(eg, S) ==
    LET T == S \cup UNION {Range(children(eg, n)) :
                             n \in UNION {Range(members(eg, c)) : c \in S}}
    IN  IF T = S THEN S ELSE ReachableFrom(eg, T)

\* The classes reachable from S through the nodes the assignment a chose.
RECURSIVE ChosenFrom(_, _, _)
ChosenFrom(eg, a, S) ==
    LET T == S \cup UNION {Range(children(eg, get(a, c))) : c \in S \cap Keys(a)}
    IN  IF T = S THEN S ELSE ChosenFrom(eg, a, T)

\* No class of a is reached again from the children of its own chosen node.
Acyclic(eg, a) ==
    \A c \in Keys(a) : c \notin ChosenFrom(eg, a, Range(children(eg, get(a, c))))

\* Every entry of a was inserted after the entries of all children of its node.
ChildrenFirst(eg, a) ==
    \A i \in 1..Len(a) :
        Range(children(eg, a[i][2])) \subseteq {a[j][1] : j \in 1..(i - 1)}

\* C3: a returned assignment has the root class as a key, maps every key to a
\* member of that class and has every child of every chosen e-node as a key.
C3_ResultWellFormed ==
    Returned =>
        /\ Root \in Keys(result.assign)
        /\ \A i \in 1..Len(result.assign) :
              /\ result.assign[i][2] \in Range(members(egraph, result.assign[i][1]))
              /\ Range(children(egraph, result.assign[i][2])) \subseteq Keys(result.assign)

\* An assignment of three classes or more was returned.
C3_Witness ==
    /\ Returned
    /\ Len(result.assign) >= 3
    /\ Root \in Keys(result.assign)

\* C4: a returned assignment is acyclic; and in every state each entry of the
\* committed assign entered it after the entries of all children of its node.
C4_AcyclicChildrenFirst ==
    /\ ChildrenFirst(egraph, assignment.assign)
    /\ Returned => Acyclic(egraph, result.assign)

\* An assignment with a node of two distinct children was returned.
C4_Witness ==
    /\ Returned
    /\ \E i \in 1..Len(result.assign) :
          Cardinality(Range(children(egraph, result.assign[i][2]))) >= 2
    /\ Acyclic(egraph, result.assign)

\* C5: from a root class without any finite extraction mcts_extract returns
\* none, whatever the configuration and the random choices.
C5_UnextractableReturnsNone ==
    (pc = "done" /\ Root \notin Extractable(egraph)) => ~result.some

\* fails_unextractable: none was returned on its e-graph under its configuration.
C5_Witness ==
    /\ pc = "done"
    /\ egraph = ScenarioB
    /\ Root = 0
    /\ config = [playouts_per_round |-> 4, terms_to_sample |-> 4]
    /\ ~result.some

ScenarioARun ==
    /\ egraph = ScenarioA
    /\ Root = 0
    /\ config = [playouts_per_round |-> 4, terms_to_sample |-> 4]

\* C6: on the e-graph of finds_high_util with 4 playouts per round and 4 terms
\* to sample, mcts_extract returns exactly {0 -> 1, 2 -> 4, 3 -> 5}.
C6_ScenarioAResult ==
    (pc = "done" /\ ScenarioARun) =>
        /\ result.some
        /\ Len(result.assign) = 3
        /\ Range(result.assign) = {<<0, 1>>, <<2, 4>>, <<3, 5>>}

\* The run of finds_high_util has returned its assignment.
C6_Witness ==
    /\ pc = "done"
    /\ ScenarioARun
    /\ result.some
    /\ Range(result.assign) = {<<0, 1>>, <<2, 4>>, <<3, 5>>}

IsChain(eg) == \E n \in 1..MaxChain : eg = Chain(n)

\* C7 as stated: on a chain, from its first class, every configuration returns
\* the assignment of every class to its single member (stated here for the
\* configurations that run at least one playout per round).
C7_ChainAnyConfig ==
    (pc = "done" /\ IsChain(egraph) /\ Root = 0 /\ config.playouts_per_round >= 1) =>
        /\ result.some
        /\ Range(result.assign) = {<<c, c>> : c \in ClassIds(egraph)}

\* What the code does on a chain: the unique assignment with two playouts per
\* round or more, none with fewer.
C7_ChainTwoPlayouts ==
    (pc = "done" /\ IsChain(egraph) /\ Root = 0) =>
        IF config.playouts_per_round >= 2
        THEN /\ result.some
             /\ Range(result.assign) = {<<c, c>> : c \in ClassIds(egraph)}
        ELSE ~result.some

\* C8 as stated: with an empty class reachable from the root, none is returned
\* only when no extraction from the root exists; a returned assignment holds
\* no empty class (stated here for the configurations that run at least two
\* playouts per round, under which pick_node has children to choose from).
C8_EmptyClassAvoided ==
    (/\ pc = "done"
     /\ config.playouts_per_round >= 2
     /\ \E c \in ReachableFrom(egraph, {Root}) : members(egraph, c) = <<>>)
        => /\ Root \in Extractable(egraph) => result.some
           /\ \A c \in Keys(result.assign) : members(egraph, c) # <<>>

(***************************************************************************)
(* Termination of mcts_extract.  Rank is a variant of the three nested     *)
(* loops: the picks the assign loop can still commit, the playouts left in *)
(* the round, and the position inside the running playout (the classes the *)
(* descent or the rollout can still assign, the rollouts left to sample).  *)
(* CanStep is the guard of the program's next step.                        *)
(***************************************************************************)
NClasses == Len(egraph.classes)

\* The picks pick_node has committed: one snapshot each, above the one of
\* ExtractionState::new and below the one of a running rollout.
Picks ==
    Len(assignment.snapshots) - 1 - (IF pc = "rollout" THEN 1 ELSE 0)

Unassigned == NClasses - Len(assignment.pending.provisional_assign)

SamplesLeft == config.terms_to_sample - est.samples_done

EstimateRank == 2 + (config.terms_to_sample + 1) * (NClasses + 2)

RoundRank == EstimateRank + 2 + NClasses

PhaseRank ==
    CASE pc = "done" -> 0
      [] pc = "backprop" -> 1
      [] pc = "sample" -> 2 + SamplesLeft * (NClasses + 2)
      [] pc = "rollout" -> 2 + (SamplesLeft - 1) * (NClasses + 2) + 1 + Unassigned
      [] pc = "estimate" -> EstimateRank
      [] pc = "descend" -> EstimateRank + 1 + Unassigned
      [] OTHER -> RoundRank

Rank ==
    (RoundRank + 1) * (config.playouts_per_round + 1) * (NClasses + 1 - Picks)
      + (RoundRank + 1) * (config.playouts_per_round - search.playouts_done)
      + PhaseRank

\* Whether the program has a next step to take.
CanStep ==
    CASE pc = "round" -> search.playouts_done <= config.playouts_per_round
      [] pc = "descend" ->
            \/ handle_class(assignment) = None
            \/ tree[search.cur + 1].n_visits = 0
            \/ members(egraph, handle_class(assignment)) = <<>>
            \/ LET ms == members(egraph, handle_class(assignment))
                   cur_node == tree[search.cur + 1]
                   cands == [k \in 1..Len(ms) |-> Candidate(tree, cur_node, ms, k, config)]
               IN  MaxByScore(cands, config) # {}
      [] pc = "estimate" -> TRUE
      [] pc = "sample" -> est.samples_done <= config.terms_to_sample
      [] pc = "rollout" -> TRUE
      [] pc = "backprop" -> TRUE
      [] OTHER -> FALSE

\* C13: mcts_extract terminates, returning an assignment or none.  Every step
\* lowers Rank, which is never negative; until it has returned the program has
\* a next step and no assertion has failed; a rollout assigns at most one node
\* per class, a playout descent visits at most one tree node per class below
\* its start, and the assign loop commits at most one pick per class.
C13_Terminates ==
    /\ [][Rank' < Rank]_vars
    /\ [](/\ Rank >= 0
          /\ panic = ""
          /\ pc # "done" => CanStep
          /\ est.steps <= NClasses
          /\ Len(search.path) <= NClasses + 1
          /\ Picks <= NClasses)

\* A run on the cyclic e-graph of fails_unextractable that committed a pick,
\* sampled rollouts and returned.
C13_Witness ==
    /\ pc = "done"
    /\ egraph = ScenarioB
    /\ Picks >= 1
    /\ config.playouts_per_round >= 2
    /\ Rank >= 0

(***************************************************************************)
(* Properties of the search tree and of run_playout, checked under         *)
(* SpecMcts.                                                               *)
(***************************************************************************)
\* The tree node the search stands at: cur_node_id inside the descent of a
\* playout, start_node between playouts.
StandingNode ==
    IF pc = "descend" THEN tree[search.cur + 1] ELSE tree[search.start_node + 1]

\* The parents of tree node id in t.
Parents(t, id) ==
    {k \in 1..Len(t) : \E e \in DOMAIN t[k].state : t[k].state[e] = id}

\* C21: while the search stands at a tree node (between playouts and at each
\* turn of the descent), every child key of that node is a member of the class
\* peeked from the extraction state and every child records that class; the
\* assertion of pick_node has not failed; and the node pick_node has just
\* moved to has the largest n_visits among the children of its parent.
C21_ChildrenMatchPeekedClass ==
    /\ panic # "pick_node"
    /\ pc \in {"round", "descend"} =>
          \A e \in DOMAIN StandingNode.state :
              /\ handle_class(assignment) # None
              /\ e \in Range(members(egraph, handle_class(assignment)))
              /\ tree[StandingNode.state[e] + 1].class = handle_class(assignment)
    /\ (pc = "round" /\ search.playouts_done = 0 /\ search.start_node # 0) =>
          \A k \in Parents(tree, search.start_node) :
              \A e \in DOMAIN tree[k].state :
                  tree[tree[k].state[e] + 1].n_visits
                      <= tree[search.start_node + 1].n_visits

\* pick_node has committed a second pick, below a node with two children, and
\* the search stands at a node that has a child again.
C21_Witness ==
    /\ pc = "round"
    /\ panic = ""
    /\ Picks >= 1
    /\ \E k \in Parents(tree, search.start_node) :
          Cardinality(DOMAIN tree[k].state) >= 2
    /\ DOMAIN StandingNode.state # {}
    /\ \A e \in DOMAIN StandingNode.state :
          tree[StandingNode.state[e] + 1].class = handle_class(assignment)

\* The path of the running playout leads from start_node down to the node
\* where the descent stands, each node a child of the one before it, none
\* met twice.
PathIsDescent ==
    /\ search.path # <<>>
    /\ search.path[1] = search.start_node
    /\ search.path[Len(search.path)] = search.cur
    /\ \A i \in 1..(Len(search.path) - 1) :
          (search.path[i] + 1) \in Parents(tree, search.path[i + 1])
    /\ \A i, j \in 1..Len(search.path) : search.path[i] = search.path[j] => i = j

\* What a step may do to the statistics of the tree: the last step of
\* run_playout adds one visit and the leaf utility to the nodes of the path
\* and to no other, and empties the path; any other step leaves the
\* statistics of every node alone and at most appends one unvisited node.
StatsStep ==
    /\ Len(tree') >= Len(tree)
    /\ IF pc = "backprop"
       THEN /\ PathIsDescent
            /\ Len(tree') = Len(tree)
            /\ search'.path = <<>>
            /\ \A k \in 1..Len(tree) :
                  IF (k - 1) \in Range(search.path)
                  THEN /\ tree'[k].n_visits = tree[k].n_visits + 1
                       /\ tree'[k].total_utility = tree[k].total_utility + search.util
                       /\ tree'[k].state = tree[k].state
                       /\ tree'[k].class = tree[k].class
                  ELSE tree'[k] = tree[k]
       ELSE /\ Len(tree') <= Len(tree) + 1
            /\ \A k \in 1..Len(tree) :
                  /\ tree'[k].n_visits = tree[k].n_visits
                  /\ tree'[k].total_utility = tree[k].total_utility
                  /\ tree'[k].class = tree[k].class
            /\ \A k \in (Len(tree) + 1)..Len(tree') :
                  tree'[k].n_visits = 0 /\ tree'[k].total_utility = 0

\* C22: each run_playout adds exactly one visit, and the same leaf utility, to
\* exactly the tree nodes on the path from start_node down to the node where
\* the descent stopped, changes the statistics of no other node, removes no
\* node and leaves the path empty.
C22_BackpropExactlyPath ==
    /\ [][StatsStep]_vars
    /\ [](pc \in {"descend", "estimate", "sample", "rollout", "backprop"} => PathIsDescent)
    /\ [](pc = "round" => search.path = <<>>)

\* A playout that went two nodes below its start has been backpropagated with
\* a utility above zero.
C22_Witness ==
    /\ pc = "round"
    /\ ghost.last = "reset"
    /\ search.path = <<>>
    /\ Len(tree) >= 3
    /\ \E k \in 1..Len(tree) :
          /\ tree[k].total_utility > 0
          /\ Parents(tree, k - 1) # {}
          /\ \A j \in Parents(tree, k - 1) : Parents(tree, j - 1) # {}

\* The state recorded when the snapshot now on top of the stack was pushed.
TopSnapshot == ghost.snaps[Len(ghost.snaps)]

\* C23: every run_playout leaves the extraction state as it was at its start.
\* Between playouts the state is the one recorded by the top snapshot (the
\* one of ExtractionState::new, or the one pushed by the last pick_node):
\* assign, provisional_assign, n_remaining, the live queue and the depth of the
\* snapshot stack are those of that moment; and no step of a playout, of the
\* descent or of the estimator, alters the snapshots a playout started with.
C23_PlayoutRestoresState ==
    /\ [](Len(ghost.snaps) >= Picks + 1)
    /\ [](pc = "round" =>
            /\ Len(assignment.snapshots) = Len(ghost.snaps)
            /\ Len(assignment.snapshots) = Picks + 1
            /\ Observable(assignment) = TopSnapshot)
    /\ [][Picks' = Picks =>
            SubSeq(ghost'.snaps, 1, Picks + 1) = SubSeq(ghost.snaps, 1, Picks + 1)]_vars

\* A playout below a committed node has ended, and its reset took back
\* committed entries, provisional entries and queue contents.
C23_Witness ==
    /\ pc = "round"
    /\ panic = ""
    /\ ghost.last = "reset"
    /\ ghost.undone
    /\ Picks >= 1
    /\ search.playouts_done >= 2
    /\ Observable(assignment) = TopSnapshot

\* C24: whenever the descent loop of run_playout ends because no class is left
\* to assign (no leaf value was captured), the assignment is complete
\* (n_remaining = 0 and to_visit_set empty), so estimate_util is called on a
\* complete state and returns its exact utility.
C24_LoopExitIsComplete ==
    (pc = "estimate" /\ ~search.has_leaf) => is_complete(assignment)

\* A step that gives a tree node a child: it is a step of the descent, the
\* node is the one the descent stands at and it has been visited before, every
\* node of the tree has been visited before (so no node was appended earlier
\* in this playout), and the one appended node is the new child, unvisited.
GrowthStep ==
    /\ \A k \in 1..Len(tree) :
          DOMAIN tree'[k].state # DOMAIN tree[k].state =>
              /\ pc = "descend"
              /\ k = search.cur + 1
              /\ tree[k].n_visits >= 1
              /\ Len(tree') = Len(tree) + 1
              /\ \E e \in DOMAIN tree'[k].state \ DOMAIN tree[k].state :
                    /\ DOMAIN tree'[k].state = DOMAIN tree[k].state \cup {e}
                    /\ tree'[k].state[e] = Len(tree)
    /\ Len(tree') # Len(tree) =>
          /\ Len(tree') = Len(tree) + 1
          /\ pc = "descend"
          /\ DOMAIN tree'[search.cur + 1].state # DOMAIN tree[search.cur + 1].state
          /\ \A k \in 1..Len(tree) : tree[k].n_visits >= 1
          /\ tree'[Len(tree')].n_visits = 0
          /\ tree'[Len(tree')].state = << >>
    /\ pc # "backprop" =>
          \A k \in 1..Len(tree) : tree'[k].n_visits = tree[k].n_visits

\* C25: a tree node gains a child only during a playout in which it had
\* n_visits >= 1 when the descent reached it, and a playout appends at most
\* one tree node; so with playouts_per_round 0 or 1 the root has no child when
\* pick_node is first called, pick_node reports failure and mcts_extract
\* returns none, whatever the e-graph and the root.
C25_NoChildWithoutTwoPlayouts ==
    /\ [][GrowthStep]_vars
    /\ [](Cardinality({k \in 1..Len(tree) : tree[k].n_visits = 0}) <= 1)
    /\ [](\A k \in 1..Len(tree) : DOMAIN tree[k].state # {} => tree[k].n_visits >= 1)
    /\ [](config.playouts_per_round <= 1 =>
            /\ Len(tree) = 1
            /\ DOMAIN tree[1].state = {}
            /\ search.start_node = 0
            /\ Picks = 0
            /\ ~result.some
            /\ panic = "")
    /\ [][(config.playouts_per_round <= 1 /\ pc' = "done") =>
            /\ pc = "round"
            /\ handle_class(assignment) # None
            /\ search.playouts_done = config.playouts_per_round
            /\ ~result'.some]_vars

\* mcts_extract has returned none after its single playout, from a root that
\* has an extraction.
C25_Witness ==
    /\ pc = "done"
    /\ panic = ""
    /\ config.playouts_per_round = 1
    /\ tree[1].n_visits = 1
    /\ DOMAIN tree[1].state = {}
    /\ ~result.some
    /\ Root \in Extractable(egraph)

====
